---- MODULE Spec2Model ----
(***************************************************************************)
(* A model of the asynchronous coordination core of reactodia-workspace:   *)
(*   AsyncLock, AbortScope, delay and raceHappyEyes (src/unnamed/part_002).*)
(* Every component has its own specification over the shared variables;    *)
(* the variables of the other components stay at their initial values.     *)
(***************************************************************************)
EXTENDS Naturals, Integers, Sequences, FiniteSets

\* ------------------------------------------------------------------ bounds
\* acquire() calls issued on one AsyncLock
MaxRequests == 4
\* AbortScope objects created by the caller
MaxScopes == 2
\* delay() calls made by the caller
MaxDelays == 2
\* candidates handed to raceHappyEyes
MaxVariants == 3
\* raceAbortSignal() calls made by the caller
MaxRaces == 2
\* distinct keys handed to a KeyedObserver
MaxKeys == 3
\* length of the key list of one observe() call
MaxKeyList == 2
\* mapAbortedToNull() calls made by the caller
\* Live subscriptions per key a throwing subscribe may leave behind
MaxLive == 2
MaxMaps == 2
MaxPairs == 2
MaxHookKeys == 2
MaxLookups == 3
MaxFrames == 4
MaxSubs == 2
MaxNotes == 3

VARIABLES
    \* AsyncLock
    lockActive,     \* AsyncLock.active: an item id, or NoItem for undefined
    lockItems,      \* the AsyncLockItem objects: promise state and next field
    lockGrants,     \* history: item ids in the order their promises fulfilled
    lockReleased,   \* history: holders whose token.release() has been called
    lockAgain,      \* history: tokens whose release() has been called again
    \* AbortSignal, AbortScope, delay
    sigAborted,     \* AbortSignal.aborted, per signal
    sigReason,      \* AbortSignal.reason, per signal
    sigListeners,   \* the 'abort' listeners of each signal, in registration order
    sigNotified,    \* history: the listeners each signal's 'abort' event called
    scopes,         \* the AbortScope objects
    delays,         \* the delay() calls: promise, timer and listener
    races,          \* the raceAbortSignal() calls: promises and cleanup closure
    \* raceHappyEyes
    hePc,           \* position of the one raceHappyEyes call
    heCount,        \* variants.length
    heIndex,        \* index of the variant of the current loop iteration
    hePrevious,     \* the local 'previous' (NoVariant for undefined)
    heAttempts,     \* keys of the local Map 'attempts'
    attemptState,   \* state of the promise makeAttempt returned, per variant
    raceWinner,     \* what the pending Promise.race has settled with, if anything
    heResult,       \* the variant whose result the call returned
    heError,        \* the error the call failed with
    \* KeyedObserver
    obsKeys,        \* keys of the Map observedKeys, in insertion order
    obsLive,        \* per key: capabilities subscribe returned, not yet invoked
    obsRequest,     \* history: the key list of the latest observe() call
    obsOk,          \* history: keys subscribe returned a capability for in it
    obsPrev,        \* history: observedKeys' keys when that call began
    obsSubCalls,    \* history: the subscribe(key) invocations of that call
    obsUnsubCalls,  \* history: the unsubscribe invocations of that call, by key
    obsUsed,        \* history: subscribe has returned a capability at some time
    \* mapAbortedToNull
    maps,           \* per call: its signal, the input promise and the result
    \* useObservedElement
    hookPc,         \* the component: "initial", "mounted" or "unmounted"
    hookRef,        \* observedStateRef.current: a pair id, or NoPair for undefined
    hookPairs,      \* the ObservedState pairs created: keys each observer tracks
    \* ElementTypeSelector
    selPc,          \* the component: "mounted" or "unmounted"
    selSearch,      \* state.searchString
    selFilter,      \* this.filterCancellation: the id of an AbortController
    selAborted,     \* signal.aborted of each filter AbortController
    selLookups,     \* the dataProvider.lookup() calls: text, signal, promise
    selExisting,    \* state.existingElements: the text whose matches it holds
    selLoading,     \* state.isLoading
    \* useFrameDebouncedStore
    frPc,           \* per subscription: "initial", "subscribed" or "disposed"
    frScheduled,    \* its local 'scheduled': a request id, or NoFrame for undefined
    frPending,      \* the animation-frame requests the browser holds, with owner
    frRequests,     \* requestAnimationFrame calls made so far
    frCalls,        \* history: invocations of its onChange
    frNotes,        \* history: change notifications it got since its last onFrame
    frInner         \* its subscription to the inner store is live

lockVars == <<lockActive, lockItems, lockGrants, lockReleased, lockAgain>>
worldVars == <<sigAborted, sigReason, sigListeners, sigNotified, scopes, delays,
               races>>
heVars == <<hePc, heCount, heIndex, hePrevious, heAttempts, attemptState,
            raceWinner, heResult, heError>>
obsVars == <<obsKeys, obsLive, obsRequest, obsOk, obsPrev, obsSubCalls,
             obsUnsubCalls, obsUsed>>
mapVars == <<maps>>
hookVars == <<hookPc, hookRef, hookPairs>>
selVars == <<selPc, selSearch, selFilter, selAborted, selLookups, selExisting, selLoading>>
frVars == <<frPc, frScheduled, frPending, frRequests, frCalls, frNotes, frInner>>
vars == <<lockVars, worldVars, heVars, obsVars, mapVars, hookVars, selVars, frVars>>

\* ================================================================ AsyncLock

NoItem == 0
ItemIds == 1..MaxRequests

\* The lock as one value: what acquire/release/dispose read and write.
LockNow ==
    [active |-> lockActive, items |-> lockItems,
     grants |-> lockGrants, released |-> lockReleased, again |-> lockAgain]

LockInstall(l) ==
    /\ lockActive' = l.active
    /\ lockItems' = l.items
    /\ lockGrants' = l.grants
    /\ lockReleased' = l.released
    /\ lockAgain' = l.again

\* Items created so far; acquire() number i creates item i.
ItemsMade(l) == {i \in ItemIds : l.items[i].state # "none"}

\* item.resolve(token): settles the promise only if it is still pending.
ItemResolve(l, i) ==
    IF l.items[i].state = "pending"
    THEN [l EXCEPT !.items[i].state = "fulfilled", !.grants = Append(@, i)]
    ELSE l

\* Mutant: reject() overrides a promise that is already settled.
ItemRejectSettled(l, i) ==
    [l EXCEPT !.items[i].state = "rejected"]

\* item.reject(error): settles the promise only if it is still pending.
ItemReject(l, i) ==
    IF l.items[i].state = "pending"
    THEN [l EXCEPT !.items[i].state = "rejected"]
    ELSE l

\* AsyncLock.activate
Activate(l) ==
    IF l.active # NoItem THEN ItemResolve(l, l.active) ELSE l

\* Mutant: the new request is activated even when a holder is active.
AcquireAlwaysActivate(l, i) ==
    LET made == [l EXCEPT !.items[i] = [state |-> "pending", next |-> NoItem]]
    IN  Activate([made EXCEPT !.active = i])

\* AsyncLock.acquire, creating item i
AcquireItem(l, i) ==
    LET made == [l EXCEPT !.items[i] = [state |-> "pending", next |-> NoItem]]
    IN  IF made.active # NoItem
        THEN [made EXCEPT !.items[made.active].next = i]
        ELSE Activate([made EXCEPT !.active = i])

\* Mutant: release() advances the lock whichever item its token belongs to.
ReleaseAnyItem(l, i) ==
    Activate([l EXCEPT !.active = l.items[i].next])

\* AsyncLock.release(item)
ReleaseItem(l, i) ==
    IF l.active = i
    THEN Activate([l EXCEPT !.active = l.items[i].next])
    ELSE l

\* AsyncLock.dispose: the walk over item, item.next, ...
RECURSIVE DisposeFrom(_, _)
DisposeFrom(l, i) ==
    IF i = NoItem THEN l
    ELSE DisposeFrom(ItemReject(l, i), l.items[i].next)

DisposeLock(l) == DisposeFrom(l, l.active)

\* Requests granted and not yet released.
Holders == {i \in ItemIds : lockItems[i].state = "fulfilled" /\ i \notin lockReleased}

\* Requests made and neither granted nor rejected.
Queued == {i \in ItemIds : lockItems[i].state = "pending"}

LockInit ==
    /\ lockActive = NoItem
    /\ lockItems = [i \in ItemIds |-> [state |-> "none", next |-> NoItem]]
    /\ lockGrants = <<>>
    /\ lockReleased = {}
    /\ lockAgain = {}

\* A caller calls lock.acquire().
LockAcquire ==
    /\ Cardinality(ItemsMade(LockNow)) < MaxRequests
    /\ LockInstall(AcquireItem(LockNow, Cardinality(ItemsMade(LockNow)) + 1))

\* A caller that was handed token i calls token.release(); the token is handed
\* out only by fulfilling the acquire() promise, and may be used more than once.
LockRelease(i) ==
    /\ lockItems[i].state = "fulfilled"
    /\ LockInstall([ReleaseItem(LockNow, i) EXCEPT
           !.released = @ \cup {i},
           !.again = IF i \in lockReleased THEN @ \cup {i} ELSE @])

\* A caller calls lock.dispose().
LockDispose ==
    LockInstall(DisposeLock(LockNow))

NextLock ==
    \/ LockAcquire /\ UNCHANGED <<worldVars, heVars, obsVars, mapVars, hookVars, selVars, frVars>>
    \/ (\E i \in ItemIds : LockRelease(i)) /\ UNCHANGED <<worldVars, heVars, obsVars, mapVars, hookVars, selVars, frVars>>
    \/ LockDispose /\ UNCHANGED <<worldVars, heVars, obsVars, mapVars, hookVars, selVars, frVars>>

\* ============================================ AbortSignal, AbortScope, delay

NoSignal == 0
\* The signal of an AbortController owned by the caller.
CallerSignal == 1
ScopeIds == 1..MaxScopes
\* Delay d is the d-th delay() call of the caller; inside raceHappyEyes it is
\* the stagger delay of variant d.
DelayIds == 1..(IF MaxDelays > MaxVariants THEN MaxDelays ELSE MaxVariants)
\* The signal of scope k's own AbortController (AbortScope.signal).
ScopeSignal(k) == k + 1
SignalIds == {CallerSignal} \cup {ScopeSignal(k) : k \in ScopeIds}

\* What controller.abort() without an argument sets as the reason.
DefaultReason == "AbortError"
\* The reasons the caller aborts its own controller with.
CallerReasons == {"AbortError", "UserReason"}

\* The closures registered as 'abort' listeners.
ScopeListener(k) == [kind |-> "scope", id |-> k]
DelayListener(d) == [kind |-> "delay", id |-> d]
RaceListener(r) == [kind |-> "race", id |-> r]
RaceIds == 1..MaxRaces

\* Signals, scopes and delays as one value.
WorldNow ==
    [aborted |-> sigAborted, reason |-> sigReason, listeners |-> sigListeners,
     notified |-> sigNotified,
     scopes |-> scopes, delays |-> delays, races |-> races]

WorldInstall(w) ==
    /\ sigAborted' = w.aborted
    /\ sigReason' = w.reason
    /\ sigListeners' = w.listeners
    /\ sigNotified' = w.notified
    /\ scopes' = w.scopes
    /\ delays' = w.delays
    /\ races' = w.races

SeqRange(q) == {q[n] : n \in 1..Len(q)}

\* signal.addEventListener('abort', l)
AddEventListener(w, s, l) ==
    [w EXCEPT !.listeners[s] = Append(@, l)]

\* signal.removeEventListener('abort', l)
RemoveEventListener(w, s, l) ==
    [w EXCEPT !.listeners[s] = SelectSeq(@, LAMBDA x : x # l)]

\* reject(err) of a delay's promise: a settled promise stays as it is.
DelayReject(w, d, err) ==
    IF w.delays[d].state = "pending"
    THEN [w EXCEPT !.delays[d].state = "rejected", !.delays[d].error = err]
    ELSE w

\* Mutant: resolve() overrides a promise that is already settled.
DelayResolveSettled(w, d) ==
    [w EXCEPT !.delays[d].state = "resolved"]

\* resolve() of a delay's promise
DelayResolve(w, d) ==
    IF w.delays[d].state = "pending"
    THEN [w EXCEPT !.delays[d].state = "resolved"]
    ELSE w

\* clearTimeout(timeoutId)
ClearTimeout(w, d) ==
    IF w.delays[d].timer = "pending"
    THEN [w EXCEPT !.delays[d].timer = "cleared"]
    ELSE w

\* Mutant: onAbort rejects the delay but leaves its timer running.
DelayOnAbortKeepTimer(w, d) ==
    LET sig == w.delays[d].signal
        w1 == RemoveEventListener(w, sig, DelayListener(d))
    IN  IF w1.aborted[sig] THEN DelayReject(w1, d, w1.reason[sig]) ELSE w1

\* Mutant: onAbort clears the timer and leaves the promise pending.
DelayOnAbortSilent(w, d) ==
    RemoveEventListener(ClearTimeout(w, d), w.delays[d].signal, DelayListener(d))

\* delay's onAbort closure
DelayOnAbort(w, d) ==
    LET sig == w.delays[d].signal
        w1 == RemoveEventListener(ClearTimeout(w, d), sig, DelayListener(d))
    IN  IF w1.aborted[sig] THEN DelayReject(w1, d, w1.reason[sig]) ELSE w1

\* raceAbortSignal's cleanup?.(): removes the listener, once
RaceCleanup(w, r) ==
    IF w.races[r].cleanup
    THEN [RemoveEventListener(w, w.races[r].signal, RaceListener(r))
            EXCEPT !.races[r].cleanup = FALSE]
    ELSE w

\* Mutant: a rejection overrides a race that is already decided.
RaceRejectedSettled(w, r, err) ==
    [w EXCEPT !.races[r].raced = "rejected", !.races[r].result = "rejected",
              !.races[r].error = err]

\* Promise.race([promise, abortPromise]) rejecting with err; the promise
\* raceAbortSignal returned (race.then(onFulfilled)) rejects with it.
RaceRejected(w, r, err) ==
    IF w.races[r].raced = "pending"
    THEN [w EXCEPT !.races[r].raced = "rejected", !.races[r].result = "rejected",
                   !.races[r].error = err]
    ELSE w

\* raceAbortSignal's onAbort closure
RaceOnAbort(w, r) ==
    LET w1 == RaceCleanup(w, r)
        sig == w1.races[r].signal
    IN  RaceRejected(w1, r,
            IF w1.aborted[sig] THEN w1.reason[sig] ELSE "FailedToThrow")

RECURSIVE SignalAbort(_, _, _)
RECURSIVE Dispatch(_, _, _)

\* Mutant: the scope's listener on its parent does nothing.
ScopeOnAbortIgnored(w, k) == w

\* AbortScope's onAbort closure: () => this.controller.abort()
ScopeOnAbort(w, k) == SignalAbort(w, ScopeSignal(k), DefaultReason)

RunListener(w, l) ==
    IF l.kind = "scope" THEN ScopeOnAbort(w, l.id)
    ELSE IF l.kind = "delay" THEN DelayOnAbort(w, l.id)
    ELSE RaceOnAbort(w, l.id)

\* Dispatch of the 'abort' event on s to the listeners registered when it
\* began, in registration order; one removed meanwhile is not called.
Dispatch(w, s, ls) ==
    IF ls = <<>> THEN w
    ELSE LET l == Head(ls)
             w1 == IF l \in SeqRange(w.listeners[s])
                   THEN RunListener([w EXCEPT !.notified[s] = Append(@, l)], l)
                   ELSE w
         IN  Dispatch(w1, s, Tail(ls))

\* Mutant: abort() fires the 'abort' event even on an aborted signal.
SignalAbortAgain(w, s, r) ==
    Dispatch([w EXCEPT !.aborted[s] = TRUE, !.reason[s] = r], s, w.listeners[s])

\* AbortController.abort(reason) of the controller owning signal s
SignalAbort(w, s, r) ==
    IF w.aborted[s] THEN w
    ELSE Dispatch([w EXCEPT !.aborted[s] = TRUE, !.reason[s] = r], s, w.listeners[s])

\* The value the constructor stores in this.parentSignal
StoredParentSignal(p) == NoSignal

\* new AbortScope(parentSignal), as scope k
ScopeNew(w, k, p) ==
    IF p # NoSignal
    THEN AddEventListener(
            [w EXCEPT !.scopes[k] = [made |-> TRUE, arg |-> p,
                                     parentSignal |-> StoredParentSignal(p),
                                     onAbort |-> TRUE]],
            p, ScopeListener(k))
    ELSE [w EXCEPT !.scopes[k] = [made |-> TRUE, arg |-> p,
                                  parentSignal |-> NoSignal, onAbort |-> FALSE]]

\* AbortScope[Symbol.dispose]
ScopeDispose(w, k) ==
    LET w1 == SignalAbort(w, ScopeSignal(k), DefaultReason)
        ps == w1.scopes[k].parentSignal
    IN  IF ps # NoSignal /\ w1.scopes[k].onAbort
        THEN RemoveEventListener(w1, ps, ScopeListener(k))
        ELSE w1

\* AbortScope.abort
ScopeAbort(w, k) == ScopeDispose(w, k)

\* delay(timeout, {signal: s}), as delay d
DelayNew(w, d, s) ==
    LET w1 == [w EXCEPT !.delays[d] =
                   [state |-> "pending", error |-> "none", signal |-> s,
                    timer |-> "pending"]]
        w2 == IF s # NoSignal /\ w1.aborted[s]
              THEN DelayReject(w1, d, w1.reason[s]) ELSE w1
    IN  IF s # NoSignal THEN AddEventListener(w2, s, DelayListener(d)) ELSE w2

\* Mutant: the timer callback resolves without removing the abort listener.
DelayTimeoutKeepListener(w, d) ==
    DelayResolve([w EXCEPT !.delays[d].timer = "fired"], d)

\* The callback delay handed to setTimeout
DelayTimeout(w, d) ==
    LET s == w.delays[d].signal
        w1 == [w EXCEPT !.delays[d].timer = "fired"]
        w2 == IF s # NoSignal THEN RemoveEventListener(w1, s, DelayListener(d)) ELSE w1
    IN  DelayResolve(w2, d)

\* raceAbortSignal(promise, s) with a pending promise, as race r
RaceNew(w, r, s) ==
    IF s = NoSignal
    THEN [w EXCEPT !.races[r] =
             [made |-> TRUE, signal |-> NoSignal, input |-> "pending",
              raced |-> "pending", result |-> "pending", error |-> "none",
              cleanup |-> FALSE]]
    ELSE AddEventListener(
             [w EXCEPT !.races[r] =
                 [made |-> TRUE, signal |-> s, input |-> "pending",
                  raced |-> "pending", result |-> "pending", error |-> "none",
                  cleanup |-> TRUE]],
             s, RaceListener(r))

\* The promise handed to raceAbortSignal fulfils. Without a signal it is the
\* returned promise itself; with one the race fulfils and its then-callback
\* is yet to run.
RaceInputFulfilled(w, r) ==
    LET w1 == [w EXCEPT !.races[r].input = "fulfilled"]
    IN  IF w1.races[r].signal = NoSignal
        THEN [w1 EXCEPT !.races[r].raced = "fulfilled", !.races[r].result = "fulfilled"]
        ELSE IF w1.races[r].raced = "pending"
        THEN [w1 EXCEPT !.races[r].raced = "fulfilled"]
        ELSE w1

\* The promise handed to raceAbortSignal rejects.
RaceInputRejected(w, r) ==
    RaceRejected([w EXCEPT !.races[r].input = "rejected"], r, "InputError")

\* .then(result => { cleanup?.(); return result; })
RaceThenCallback(w, r) ==
    [RaceCleanup(w, r) EXCEPT !.races[r].result = "fulfilled"]

WorldInit ==
    /\ races = [r \in RaceIds |->
                   [made |-> FALSE, signal |-> NoSignal, input |-> "pending",
                    raced |-> "pending", result |-> "pending", error |-> "none",
                    cleanup |-> FALSE]]
    /\ sigAborted = [s \in SignalIds |-> FALSE]
    /\ sigReason = [s \in SignalIds |-> "none"]
    /\ sigListeners = [s \in SignalIds |-> <<>>]
    /\ sigNotified = [s \in SignalIds |-> <<>>]
    /\ scopes = [k \in ScopeIds |->
                    [made |-> FALSE, arg |-> NoSignal, parentSignal |-> NoSignal,
                     onAbort |-> FALSE]]
    /\ delays = [d \in DelayIds |->
                    [state |-> "none", error |-> "none", signal |-> NoSignal,
                     timer |-> "none"]]


\* ---------------------------------------------------- the caller's operations

ScopesMade == {k \in ScopeIds : scopes[k].made}
DelaysMade == {d \in DelayIds : delays[d].state # "none"}

\* ============================================================ raceHappyEyes

\* The variants are numbered 1..heCount in list order.
NoVariant == 0
VariantIds == 1..MaxVariants
\* The scope raceHappyEyes creates: const scope = new AbortScope(parentSignal)
HeScope == 1
\* Contenders of Promise.race([...attempts.values(), wait]): a variant, or wait.
WaitContender == 0
NoWinner == -1

HeNow ==
    [pc |-> hePc, count |-> heCount, index |-> heIndex, previous |-> hePrevious,
     attempts |-> heAttempts, attempt |-> attemptState, winner |-> raceWinner,
     result |-> heResult, error |-> heError]

HeInstall(h) ==
    /\ hePc' = h.pc
    /\ heCount' = h.count
    /\ heIndex' = h.index
    /\ hePrevious' = h.previous
    /\ heAttempts' = h.attempts
    /\ attemptState' = h.attempt
    /\ raceWinner' = h.winner
    /\ heResult' = h.result
    /\ heError' = h.error

\* The call and its world: m.h is the call, m.w the signals, scopes and delays.
MachineNow == [w |-> WorldNow, h |-> HeNow]

MachineInstall(m) == WorldInstall(m.w) /\ HeInstall(m.h)

SetMin(S) == CHOOSE x \in S : \A y \in S : x <= y

\* Mutant: the finally block does not abort the scope.
FinallySkipAbort(w) == w

\* finally { scope.abort(); }
Finally(w) == ScopeAbort(w, HeScope)

\* The call fails with err, through the finally block.
HeFail(m, err) ==
    [w |-> Finally(m.w), h |-> [m.h EXCEPT !.pc = "failed", !.error = err]]

\* return raced.result, through the finally block
HeReturn(m, v) ==
    [w |-> Finally(m.w), h |-> [m.h EXCEPT !.pc = "returned", !.result = v]]

\* await Promise.race([...attempts.values(), wait]): a contender already settled
\* when race is called wins in array order (the Map's insertion order, then wait).
RaceCall(m) ==
    LET settled == {v \in m.h.attempts : m.h.attempt[v] # "pending"}
        winner == IF settled # {} THEN SetMin(settled)
                  ELSE IF m.w.delays[m.h.index].state # "pending" THEN WaitContender
                  ELSE NoWinner
    IN  [m EXCEPT !.h.pc = "waiting", !.h.winner = winner]

\* Mutant: the loop passes over a candidate when two or more are left.
HeIterateSkipping(m, o) ==
    IF m.h.index = m.h.count THEN HeFail(m, "NoVariantsLeft")
    ELSE LET i == IF m.h.index + 2 <= m.h.count THEN m.h.index + 2
                  ELSE m.h.index + 1
             sig == ScopeSignal(HeScope)
         IN  IF m.w.aborted[sig] THEN HeFail(m, m.w.reason[sig])
             ELSE IF o = "throws" THEN HeFail(m, "AttemptThrew")
             ELSE RaceCall([w |-> DelayNew(m.w, i, sig),
                            h |-> [m.h EXCEPT !.index = i,
                                              !.attempts = @ \cup {i},
                                              !.attempt[i] = "pending"]])

\* The for loop going to its next variant, or ending; o is what makeAttempt does.
HeIterate(m, o) ==
    IF m.h.index = m.h.count THEN HeFail(m, "NoVariantsLeft")
    ELSE LET i == m.h.index + 1
             sig == ScopeSignal(HeScope)
         IN  IF m.w.aborted[sig] THEN HeFail(m, m.w.reason[sig])
             ELSE IF o = "throws" THEN HeFail(m, "AttemptThrew")
             ELSE RaceCall([w |-> DelayNew(m.w, i, sig),
                            h |-> [m.h EXCEPT !.index = i,
                                              !.attempts = @ \cup {i},
                                              !.attempt[i] = "pending"]])

\* Mutant: instead of leaving the waitForEvent loop the call races again.
AfterWaitRacesAgain(m, o) == RaceCall(m)

\* Leaving the waitForEvent loop: previous = variant, then the next iteration.
AfterWait(m, o) ==
    HeIterate([m EXCEPT !.h.previous = m.h.index], o)

\* The condition of the waitForEvent loop
WaitLoop(m, o) ==
    IF m.h.attempts # {} THEN RaceCall(m) ELSE AfterWait(m, o)

\* case 'reject': raced.variant === previous
RejectBreaks(h, v) == v = h.previous

\* The switch over the value the race settled with.
HeResume(m, o) ==
    LET c == m.h.winner
        i == m.h.index
    IN  IF c = WaitContender
        THEN IF m.w.delays[i].state = "resolved"
             THEN AfterWait(m, o)
             ELSE HeFail(m, m.w.delays[i].error)
        ELSE IF m.h.attempt[c] = "resolved"
             THEN HeReturn(m, c)
             ELSE LET m1 == [m EXCEPT !.h.attempts = @ \ {c}]
                  IN  IF RejectBreaks(m1.h, c) THEN AfterWait(m1, o)
                      ELSE WaitLoop(m1, o)

\* What the pending race has settled with once the world is w: the first
\* contender to settle decides it.
WinnerAfter(w) ==
    IF /\ hePc = "waiting"
       /\ raceWinner = NoWinner
       /\ w.delays[heIndex].state # "pending"
    THEN WaitContender ELSE raceWinner

HeInit ==
    /\ hePc = "idle"
    /\ heCount = 0
    /\ heIndex = 0
    /\ hePrevious = NoVariant
    /\ heAttempts = {}
    /\ attemptState = [v \in VariantIds |-> "notStarted"]
    /\ raceWinner = NoWinner
    /\ heResult = NoVariant
    /\ heError = "none"

MakeAttemptOutcomes == {"pending", "throws"}

\* The race has settled and the continuation of the await has not run yet. It
\* runs in the microtasks of the task that settled the race, so no timer
\* callback (a task of its own) comes in between.
RaceSettled == hePc = "waiting" /\ raceWinner # NoWinner

\* The race was settled by the callback of the stagger timer: that task does
\* nothing else, so the continuation is the next thing to run.
SettledByTimer ==
    /\ RaceSettled
    /\ raceWinner = WaitContender
    /\ delays[heIndex].state = "resolved"

\* ------------------------------------------------------------------ actions

\* The owner of the caller's AbortController aborts it with reason r.
CallerAbort(r) ==
    LET w == SignalAbort(WorldNow, CallerSignal, r)
    IN  /\ ~SettledByTimer
        /\ WorldInstall(w)
        /\ raceWinner' = WinnerAfter(w)
        /\ UNCHANGED <<hePc, heCount, heIndex, hePrevious, heAttempts,
                       attemptState, heResult, heError>>

\* The timer of delay d expires.
TimerFire(d) ==
    /\ delays[d].timer = "pending"
    /\ ~RaceSettled
    /\ LET w == DelayTimeout(WorldNow, d)
       IN  /\ WorldInstall(w)
           /\ raceWinner' = WinnerAfter(w)
    /\ UNCHANGED <<hePc, heCount, heIndex, hePrevious, heAttempts,
                   attemptState, heResult, heError>>

\* The caller creates the next AbortScope, from parent signal p or from none.
CreateScope(p) ==
    /\ ScopesMade # ScopeIds
    /\ p \in {NoSignal, CallerSignal} \cup {ScopeSignal(k) : k \in ScopesMade}
    /\ WorldInstall(ScopeNew(WorldNow, Cardinality(ScopesMade) + 1, p))

\* The caller disposes scope k.
DisposeScope(k) ==
    /\ scopes[k].made
    /\ WorldInstall(ScopeDispose(WorldNow, k))

\* The caller calls abort() on scope k.
AbortScope(k) ==
    /\ scopes[k].made
    /\ WorldInstall(ScopeAbort(WorldNow, k))

\* The caller calls delay with signal s (or none).
CallDelay(s) ==
    /\ Cardinality(DelaysMade) < MaxDelays
    /\ s \in {NoSignal, CallerSignal} \cup {ScopeSignal(k) : k \in ScopesMade}
    /\ WorldInstall(DelayNew(WorldNow, Cardinality(DelaysMade) + 1, s))

RacesMade == {r \in RaceIds : races[r].made}

\* The caller calls raceAbortSignal(promise, s) with a pending promise.
CallRace(s) ==
    /\ RacesMade # RaceIds
    /\ WorldInstall(RaceNew(WorldNow, Cardinality(RacesMade) + 1, s))

\* The promise given to race r fulfils.
InputFulfil(r) ==
    /\ races[r].made /\ races[r].input = "pending"
    /\ WorldInstall(RaceInputFulfilled(WorldNow, r))

\* The promise given to race r rejects.
InputReject(r) ==
    /\ races[r].made /\ races[r].input = "pending"
    /\ WorldInstall(RaceInputRejected(WorldNow, r))

\* The then-callback of race r runs.
RaceThen(r) ==
    /\ races[r].raced = "fulfilled" /\ races[r].result = "pending"
    /\ WorldInstall(RaceThenCallback(WorldNow, r))

\* raceHappyEyes(variants, makeAttempt, {timeout, signal: p}) with n variants,
\* up to its first await.
HeCall(n, p, o) ==
    /\ hePc = "idle"
    /\ MachineInstall(HeIterate(
           [w |-> ScopeNew(WorldNow, HeScope, p),
            h |-> [HeNow EXCEPT !.count = n]], o))

\* The promise makeAttempt returned for variant v fulfils.
AttemptResolve(v) ==
    /\ attemptState[v] = "pending"
    /\ ~SettledByTimer
    /\ attemptState' = [attemptState EXCEPT ![v] = "resolved"]
    /\ raceWinner' = IF hePc = "waiting" /\ raceWinner = NoWinner /\ v \in heAttempts
                     THEN v ELSE raceWinner
    /\ UNCHANGED <<worldVars, hePc, heCount, heIndex, hePrevious, heAttempts,
                   heResult, heError>>

\* The promise makeAttempt returned for variant v rejects.
AttemptReject(v) ==
    /\ attemptState[v] = "pending"
    /\ ~SettledByTimer
    /\ attemptState' = [attemptState EXCEPT ![v] = "rejected"]
    /\ raceWinner' = IF hePc = "waiting" /\ raceWinner = NoWinner /\ v \in heAttempts
                     THEN v ELSE raceWinner
    /\ UNCHANGED <<worldVars, hePc, heCount, heIndex, hePrevious, heAttempts,
                   heResult, heError>>

\* The await of the race resumes raceHappyEyes, which runs to its next await
\* or to its end.
HeWake(o) ==
    /\ hePc = "waiting"
    /\ raceWinner # NoWinner
    /\ MachineInstall(HeResume(MachineNow, o))

\* ============================================================ KeyedObserver

KeyIds == 1..MaxKeys

\* The key lists observe() is called with, duplicates included.
KeyLists == UNION {[1..n -> KeyIds] : n \in 0..MaxKeyList}

\* The loop of observe() subscribing to every key anew, the capability the
\* Map already stores for it ignored.
RECURSIVE ObserveLoopAlwaysSubscribe(_, _, _, _)
ObserveLoopAlwaysSubscribe(observed, keys, ok, acc) ==
    IF keys = <<>> THEN acc
    ELSE LET key == Head(keys)
             next == IF key \in SeqRange(acc.new) THEN acc
                     ELSE [new |-> IF key \in ok THEN Append(acc.new, key)
                                   ELSE acc.new,
                           subs |-> Append(acc.subs, key)]
         IN  ObserveLoopAlwaysSubscribe(observed, Tail(keys), ok, next)

\* The loop of observe() over the rest of the keys: acc.new is the Map
\* newObservedKeys so far (keys in insertion order), acc.subs the subscribe
\* calls made so far. subscribe returns a capability for the keys in ok.
RECURSIVE ObserveLoop(_, _, _, _)
ObserveLoop(observed, keys, ok, acc) ==
    IF keys = <<>> THEN acc
    ELSE LET key == Head(keys)
             stored == key \in SeqRange(observed)
             got == stored \/ key \in ok
             next == IF key \in SeqRange(acc.new) THEN acc
                     ELSE [new |-> IF got THEN Append(acc.new, key) ELSE acc.new,
                           subs |-> IF stored THEN acc.subs
                                    ELSE Append(acc.subs, key)]
         IN  ObserveLoop(observed, Tail(keys), ok, next)

\* Mutant: every stored unsubscribe is invoked, also that of a key kept.
ObserveRunUnsubscribesAll(observed, keys, ok) ==
    IF keys = <<>> /\ observed = <<>>
    THEN [observed |-> observed, subs |-> <<>>, unsubs |-> <<>>]
    ELSE LET acc == ObserveLoop(observed, keys, ok, [new |-> <<>>, subs |-> <<>>])
         IN  [observed |-> acc.new, subs |-> acc.subs, unsubs |-> observed]

\* Mutant: observe([]) on an empty tracker is taken as a request for key 1.
ObserveRunDefaultKey(observed, keys, ok) ==
    LET acc == ObserveLoop(observed, IF keys = <<>> /\ observed = <<>> THEN <<1>> ELSE keys,
                           ok, [new |-> <<>>, subs |-> <<>>])
    IN  [observed |-> acc.new,
         subs |-> acc.subs,
         unsubs |-> SelectSeq(observed, LAMBDA k : k \notin SeqRange(acc.new))]

\* Mutant: the keys left out of the request are dropped without unsubscribing.
ObserveRunNoUnsubscribe(observed, keys, ok) ==
    IF keys = <<>> /\ observed = <<>>
    THEN [observed |-> observed, subs |-> <<>>, unsubs |-> <<>>]
    ELSE LET acc == ObserveLoop(observed, keys, ok, [new |-> <<>>, subs |-> <<>>])
         IN  [observed |-> acc.new, subs |-> acc.subs, unsubs |-> <<>>]

\* KeyedObserver.observe(keys) on the Map with keys observed: the Map it
\* leaves and the subscribe and unsubscribe invocations it makes, in order.
ObserveRun(observed, keys, ok) ==
    IF keys = <<>> /\ observed = <<>>
    THEN [observed |-> observed, subs |-> <<>>, unsubs |-> <<>>]
    ELSE LET acc == ObserveLoop(observed, keys, ok, [new |-> <<>>, subs |-> <<>>])
         IN  [observed |-> acc.new,
              subs |-> acc.subs,
              unsubs |-> SelectSeq(observed, LAMBDA k : k \notin SeqRange(acc.new))]

\* Occurrences of k in the sequence q.
Count(q, k) == Cardinality({n \in 1..Len(q) : q[n] = k})

ObsInit ==
    /\ obsKeys = <<>>
    /\ obsLive = [k \in KeyIds |-> 0]
    /\ obsRequest = <<>>
    /\ obsOk = {}
    /\ obsPrev = <<>>
    /\ obsSubCalls = <<>>
    /\ obsUnsubCalls = <<>>
    /\ obsUsed = FALSE

\* observer.observe(keys), where subscribe returns a capability for the keys
\* in ok and undefined for the others.
ObsObserve(keys, ok) ==
    LET run == ObserveRun(obsKeys, keys, ok)
    IN  /\ obsKeys' = run.observed
        /\ obsLive' = [k \in KeyIds |->
               (obsLive[k] + (IF k \in ok THEN Count(run.subs, k) ELSE 0))
                   - Count(run.unsubs, k)]
        /\ obsRequest' = keys
        /\ obsOk' = ok
        /\ obsPrev' = obsKeys
        /\ obsSubCalls' = run.subs
        /\ obsUnsubCalls' = run.unsubs
        /\ obsUsed' = (obsUsed \/ \E k \in SeqRange(run.subs) : k \in ok)

\* observer.stopListening()
ObsStopListening == ObsObserve(<<>>, {})

NextObserver ==
    \/ (\E keys \in KeyLists :
           \E ok \in SUBSET (SeqRange(keys) \ SeqRange(obsKeys)) :
               ObsObserve(keys, ok))
          /\ UNCHANGED <<lockVars, worldVars, heVars, mapVars, hookVars, selVars, frVars>>
    \/ ObsStopListening /\ UNCHANGED <<lockVars, worldVars, heVars, mapVars, hookVars, selVars, frVars>>

\* observe(keys) whose subscribe call for keys[t] throws: the loop has run
\* over the keys before it, the exception leaves observe() before the forEach
\* and the assignment, and newObservedKeys is lost with the frame.
ObserveThrow(observed, keys, ok, t) ==
    LET acc == ObserveLoop(observed, SubSeq(keys, 1, t - 1), ok,
                           [new |-> <<>>, subs |-> <<>>])
    IN  [observed |-> observed,
         subs |-> Append(acc.subs, keys[t]),
         made |-> acc.subs,
         unsubs |-> <<>>,
         called |-> keys[t] \notin SeqRange(acc.new) /\ keys[t] \notin SeqRange(observed)]

\* observer.observe(keys) with subscribe throwing for keys[t]
ObsObserveThrows(keys, ok, t) ==
    LET run == ObserveThrow(obsKeys, keys, ok, t)
    IN  /\ t \in 1..Len(keys)
        /\ run.called
        /\ keys[t] \notin ok
        /\ obsKeys' = run.observed
        /\ obsLive' = [k \in KeyIds |->
               obsLive[k] + (IF k \in ok THEN Count(run.made, k) ELSE 0)]
        /\ \A k \in KeyIds : obsLive'[k] <= MaxLive
        /\ obsRequest' = keys
        /\ obsOk' = ok
        /\ obsPrev' = obsKeys
        /\ obsSubCalls' = run.subs
        /\ obsUnsubCalls' = run.unsubs
        /\ obsUsed' = (obsUsed \/ \E k \in SeqRange(run.made) : k \in ok)

ObsThrowStep ==
    \E keys \in KeyLists :
        \E ok \in SUBSET (SeqRange(keys) \ SeqRange(obsKeys)) :
            \E t \in 1..MaxKeyList : ObsObserveThrows(keys, ok, t)

NextObserverThrow ==
    \/ NextObserver
    \/ ObsThrowStep /\ UNCHANGED <<lockVars, worldVars, heVars, mapVars, hookVars, selVars, frVars>>

\* ========================================================= mapAbortedToNull

MapIds == 1..MaxMaps
\* What the input promises fulfil with and reject with.
MapValues == {"a", "b"}
MapErrors == {"e1", "e2"}

Unsettled == [state |-> "pending", value |-> "none"]

\* Mutant: a rejection is passed on even when the signal is aborted.
MapOnRejectAlways(aborted, err) ==
    [state |-> "rejected", value |-> err]

\* onResolve: null if the signal is there and aborted, else the value
MapOnResolve(aborted, value) ==
    IF aborted THEN [state |-> "fulfilled", value |-> "null"]
    ELSE [state |-> "fulfilled", value |-> value]

\* onReject: null if the signal is there and aborted, else Promise.reject(err)
MapOnReject(aborted, err) ==
    IF aborted THEN [state |-> "fulfilled", value |-> "null"]
    ELSE [state |-> "rejected", value |-> err]

\* `signal && signal.aborted` for the signal of call m
MapSignalAborted(m) ==
    maps[m].signal # NoSignal /\ sigAborted[maps[m].signal]

MapInit ==
    maps = [m \in MapIds |->
               [made |-> FALSE, signal |-> NoSignal, input |-> Unsettled,
                abortedAtSettle |-> FALSE, result |-> Unsettled]]

MapsMade == {m \in MapIds : maps[m].made}

\* The caller calls mapAbortedToNull(promise, s) with a pending promise.
CallMap(s) ==
    /\ MapsMade # MapIds
    /\ maps' = [maps EXCEPT ![Cardinality(MapsMade) + 1] =
                   [made |-> TRUE, signal |-> s, input |-> Unsettled,
                    abortedAtSettle |-> FALSE, result |-> Unsettled]]

\* The promise given to call m settles with outcome o; abortedAtSettle
\* records whether the signal was aborted at that time.
MapInputSettle(m, o) ==
    /\ maps[m].made /\ maps[m].input.state = "pending"
    /\ maps' = [maps EXCEPT ![m].input = o,
                            ![m].abortedAtSettle = MapSignalAborted(m)]

\* The reaction promise.then(onResolve, onReject) registered runs, a
\* microtask after the promise settled.
MapThen(m) ==
    /\ maps[m].input.state # "pending" /\ maps[m].result.state = "pending"
    /\ maps' = [maps EXCEPT ![m].result =
                   IF maps[m].input.state = "fulfilled"
                   THEN MapOnResolve(MapSignalAborted(m), maps[m].input.value)
                   ELSE MapOnReject(MapSignalAborted(m), maps[m].input.value)]

NextMap ==
    \/ (\E r \in CallerReasons : CallerAbort(r)) /\ UNCHANGED <<lockVars, obsVars, mapVars, hookVars, selVars, frVars>>
    \/ (\E s \in {NoSignal, CallerSignal} : CallMap(s))
          /\ UNCHANGED <<lockVars, worldVars, heVars, obsVars, hookVars, selVars, frVars>>
    \/ (\E m \in MapIds, v \in MapValues :
            MapInputSettle(m, [state |-> "fulfilled", value |-> v]))
          /\ UNCHANGED <<lockVars, worldVars, heVars, obsVars, hookVars, selVars, frVars>>
    \/ (\E m \in MapIds, e \in MapErrors :
            MapInputSettle(m, [state |-> "rejected", value |-> e]))
          /\ UNCHANGED <<lockVars, worldVars, heVars, obsVars, hookVars, selVars, frVars>>
    \/ (\E m \in MapIds : MapThen(m))
          /\ UNCHANGED <<lockVars, worldVars, heVars, obsVars, hookVars, selVars, frVars>>

\* ======================================================= useObservedElement

NoPair == 0
HookKeyIds == 1..MaxHookKeys
\* data.types and Object.keys(data.properties)
HookKeyLists == UNION {[1..n -> HookKeyIds] : n \in 0..MaxHookKeys}
\* The element's data: NoData for an element that is not an EntityElement
NoData == [entity |-> FALSE, types |-> <<>>, props |-> <<>>]
HookData ==
    {NoData} \cup [entity : {TRUE}, types : HookKeyLists, props : HookKeyLists]

\* The first effect of useObservedElement: the ObservedState pairs after it.
\* observedStateRef.current is read and never assigned.
HookEffect(ref, pairs, data, okT, okP) ==
    IF ~data.entity THEN pairs
    ELSE LET fresh == ref = NoPair
             id == IF fresh THEN Len(pairs) + 1 ELSE ref
             all == IF fresh THEN Append(pairs, [types |-> <<>>, props |-> <<>>])
                    ELSE pairs
         IN  [all EXCEPT
                 ![id].types = ObserveRun(all[id].types, data.types, okT).observed,
                 ![id].props = ObserveRun(all[id].props, data.props, okP).observed]

\* The cleanup of the second effect: stopListening() on the pair the ref holds
HookCleanup(ref, pairs) ==
    IF ref = NoPair THEN pairs
    ELSE [pairs EXCEPT ![ref].types = ObserveRun(pairs[ref].types, <<>>, {}).observed,
                       ![ref].props = ObserveRun(pairs[ref].props, <<>>, {}).observed]

HookInit ==
    /\ hookPc = "initial"
    /\ hookRef = NoPair
    /\ hookPairs = <<>>

\* An effect run may create a pair while fewer than MaxPairs exist.
HookRoom(data) == data.entity /\ hookRef = NoPair => Len(hookPairs) < MaxPairs

\* The component mounts with the element's data: both effects run.
HookMount(data, okT, okP) ==
    /\ hookPc = "initial"
    /\ HookRoom(data)
    /\ hookPc' = "mounted"
    /\ hookPairs' = HookEffect(hookRef, hookPairs, data, okT, okP)
    /\ UNCHANGED hookRef

\* A render with data.types or data.properties changed: the first effect
\* runs again.
HookUpdate(data, okT, okP) ==
    /\ hookPc = "mounted"
    /\ HookRoom(data)
    /\ hookPairs' = HookEffect(hookRef, hookPairs, data, okT, okP)
    /\ UNCHANGED <<hookPc, hookRef>>

\* The component unmounts: the cleanup of the second effect runs.
HookUnmount ==
    /\ hookPc = "mounted"
    /\ hookPc' = "unmounted"
    /\ hookPairs' = HookCleanup(hookRef, hookPairs)
    /\ UNCHANGED hookRef

NextHook ==
    \/ (\E data \in HookData :
           \E okT \in SUBSET SeqRange(data.types), okP \in SUBSET SeqRange(data.props) :
               HookMount(data, okT, okP))
          /\ UNCHANGED <<lockVars, worldVars, heVars, obsVars, mapVars, selVars, frVars>>
    \/ (\E data \in HookData :
           \E okT \in SUBSET SeqRange(data.types), okP \in SUBSET SeqRange(data.props) :
               HookUpdate(data, okT, okP))
          /\ UNCHANGED <<lockVars, worldVars, heVars, obsVars, mapVars, selVars, frVars>>
    \/ HookUnmount /\ UNCHANGED <<lockVars, worldVars, heVars, obsVars, mapVars, selVars, frVars>>

\* ====================================================== ElementTypeSelector

\* The search strings the user types; "" is the cleared field.
SearchTexts == {"", "a", "b"}
LookupIds == 1..MaxLookups
\* Filter controllers: 0 is the one of the field initialiser, k the one
\* created for lookup k.
FilterIds == 0..MaxLookups
\* state.existingElements = []
NoElements == "none"
UndefinedLoading == "undefined"

SelInit ==
    /\ selPc = "mounted"
    /\ selSearch = ""
    /\ selFilter = 0
    /\ selAborted = [c \in FilterIds |-> FALSE]
    /\ selLookups = [k \in LookupIds |->
                        [made |-> FALSE, text |-> "", signal |-> 0, state |-> "none"]]
    /\ selExisting = NoElements
    /\ selLoading = UndefinedLoading

LookupsMade == {k \in LookupIds : selLookups[k].made}

\* The user changes the search field to text: setState({searchString}), then
\* componentDidUpdate sees the change and calls searchExistingElements().
SelSearchChange(text) ==
    /\ selPc = "mounted"
    /\ text # selSearch
    /\ selSearch' = text
    /\ selExisting' = NoElements
    /\ IF text # ""
       THEN LET k == Cardinality(LookupsMade) + 1
            IN  /\ LookupsMade # LookupIds
                /\ selLoading' = TRUE
                /\ selAborted' = [selAborted EXCEPT ![selFilter] = TRUE]
                /\ selFilter' = k
                /\ selLookups' = [selLookups EXCEPT ![k] =
                       [made |-> TRUE, text |-> text, signal |-> k, state |-> "pending"]]
       ELSE UNCHANGED <<selLoading, selAborted, selFilter, selLookups>>
    /\ UNCHANGED selPc

\* The promise of lookup k fulfils and its then-callback runs.
SelLookupFulfil(k) ==
    /\ selLookups[k].made /\ selLookups[k].state = "pending"
    /\ selLookups' = [selLookups EXCEPT ![k].state = "fulfilled"]
    /\ IF selAborted[selLookups[k].signal]
       THEN UNCHANGED <<selExisting, selLoading>>
       ELSE /\ selExisting' = selLookups[k].text
            /\ selLoading' = FALSE
    /\ UNCHANGED <<selPc, selSearch, selFilter, selAborted>>

\* The promise of lookup k rejects: the then-callback does not run.
SelLookupReject(k) ==
    /\ selLookups[k].made /\ selLookups[k].state = "pending"
    /\ selLookups' = [selLookups EXCEPT ![k].state = "rejected"]
    /\ UNCHANGED <<selPc, selSearch, selFilter, selAborted, selExisting, selLoading>>

\* componentWillUnmount
SelUnmount ==
    /\ selPc = "mounted"
    /\ selPc' = "unmounted"
    /\ selAborted' = [selAborted EXCEPT ![selFilter] = TRUE]
    /\ UNCHANGED <<selSearch, selFilter, selLookups, selExisting, selLoading>>

NextSelector ==
    \/ (\E text \in SearchTexts : SelSearchChange(text))
          /\ UNCHANGED <<lockVars, worldVars, heVars, obsVars, mapVars, hookVars, frVars>>
    \/ (\E k \in LookupIds : SelLookupFulfil(k))
          /\ UNCHANGED <<lockVars, worldVars, heVars, obsVars, mapVars, hookVars, frVars>>
    \/ (\E k \in LookupIds : SelLookupReject(k))
          /\ UNCHANGED <<lockVars, worldVars, heVars, obsVars, mapVars, hookVars, frVars>>
    \/ SelUnmount /\ UNCHANGED <<lockVars, worldVars, heVars, obsVars, mapVars, hookVars, frVars>>

\* =================================================== useFrameDebouncedStore

NoFrame == 0
\* The subscriptions made to the one debounced store, each with its own
\* closure over 'scheduled' and onChange.
SubIds == 1..MaxSubs

\* Mutant: the returned dispose leaves the requested frame in place.
FrameDisposeKeepsRequest(i, scheduled, pending) == pending

\* if (scheduled !== undefined) cancelAnimationFrame(scheduled)
FrameDispose(i, scheduled, pending) ==
    IF scheduled # NoFrame THEN pending \ {<<i, scheduled>>} ELSE pending

FrameInit ==
    /\ frPc = [i \in SubIds |-> "initial"]
    /\ frScheduled = [i \in SubIds |-> NoFrame]
    /\ frPending = {}
    /\ frRequests = 0
    /\ frCalls = [i \in SubIds |-> 0]
    /\ frNotes = [i \in SubIds |-> 0]
    /\ frInner = [i \in SubIds |-> FALSE]

\* The debounced store is subscribed to with an onChange: subscribe(...) on
\* the inner store.
FrameSubscribe(i) ==
    /\ frPc[i] = "initial"
    /\ frPc' = [frPc EXCEPT ![i] = "subscribed"]
    /\ frInner' = [frInner EXCEPT ![i] = TRUE]
    /\ UNCHANGED <<frScheduled, frPending, frRequests, frCalls, frNotes>>

\* Subscriptions that request a frame on the next notification
FrameIdle == {i \in SubIds : frInner[i] /\ frScheduled[i] = NoFrame}

\* The id requestAnimationFrame returns to subscription i when the
\* subscriptions in FrameIdle request their frames in order
FrameId(i) == frRequests + Cardinality({j \in FrameIdle : j <= i})

\* The inner store notifies a change to every live subscription: each
\* requests a frame unless it has one scheduled.
FrameNotify ==
    /\ \E i \in SubIds : frInner[i]
    /\ \A i \in SubIds : frInner[i] => frNotes[i] < MaxNotes
    /\ frRequests + Cardinality(FrameIdle) <= MaxFrames
    /\ frNotes' = [i \in SubIds |-> IF frInner[i] THEN frNotes[i] + 1 ELSE frNotes[i]]
    /\ frRequests' = frRequests + Cardinality(FrameIdle)
    /\ frScheduled' = [i \in SubIds |->
           IF i \in FrameIdle THEN FrameId(i) ELSE frScheduled[i]]
    /\ frPending' = frPending \cup {<<i, FrameId(i)>> : i \in FrameIdle}
    /\ UNCHANGED <<frPc, frCalls, frInner>>

\* An animation frame: the browser runs every callback requested for it; each
\* is the onFrame of its subscription, which clears 'scheduled' and calls
\* onChange.
FrameTick ==
    /\ frPending # {}
    /\ frPending' = {}
    /\ frScheduled' = [i \in SubIds |->
           IF \E p \in frPending : p[1] = i THEN NoFrame ELSE frScheduled[i]]
    /\ frCalls' = [i \in SubIds |->
           frCalls[i] + Cardinality({p \in frPending : p[1] = i})]
    /\ frNotes' = [i \in SubIds |->
           IF \E p \in frPending : p[1] = i THEN 0 ELSE frNotes[i]]
    /\ UNCHANGED <<frPc, frRequests, frInner>>

\* The function subscription i got back is called: its frame is cancelled
\* and its inner subscription disposed.
FrameDisposeCall(i) ==
    /\ frPc[i] = "subscribed"
    /\ frPc' = [frPc EXCEPT ![i] = "disposed"]
    /\ frPending' = FrameDispose(i, frScheduled[i], frPending)
    /\ frInner' = [frInner EXCEPT ![i] = FALSE]
    /\ UNCHANGED <<frScheduled, frRequests, frCalls, frNotes>>

NextFrame ==
    \/ (\E i \in SubIds : FrameSubscribe(i))
          /\ UNCHANGED <<lockVars, worldVars, heVars, obsVars, mapVars, hookVars, selVars>>
    \/ FrameNotify
          /\ UNCHANGED <<lockVars, worldVars, heVars, obsVars, mapVars, hookVars, selVars>>
    \/ FrameTick
          /\ UNCHANGED <<lockVars, worldVars, heVars, obsVars, mapVars, hookVars, selVars>>
    \/ (\E i \in SubIds : FrameDisposeCall(i))
          /\ UNCHANGED <<lockVars, worldVars, heVars, obsVars, mapVars, hookVars, selVars>>

Init ==
    /\ LockInit /\ WorldInit /\ HeInit /\ ObsInit /\ MapInit /\ HookInit /\ SelInit
    /\ FrameInit

NextScope ==
    \/ (\E r \in CallerReasons : CallerAbort(r)) /\ UNCHANGED <<lockVars, obsVars, mapVars, hookVars, selVars, frVars>>
    \/ (\E d \in DelayIds : TimerFire(d)) /\ UNCHANGED <<lockVars, obsVars, mapVars, hookVars, selVars, frVars>>
    \/ (\E p \in {NoSignal, CallerSignal} : CreateScope(p))
          /\ UNCHANGED <<lockVars, heVars, obsVars, mapVars, hookVars, selVars, frVars>>
    \/ (\E k \in ScopeIds : DisposeScope(k)) /\ UNCHANGED <<lockVars, heVars, obsVars, mapVars, hookVars, selVars, frVars>>
    \/ (\E k \in ScopeIds : AbortScope(k)) /\ UNCHANGED <<lockVars, heVars, obsVars, mapVars, hookVars, selVars, frVars>>
    \/ (\E s \in SignalIds \cup {NoSignal} : CallDelay(s))
          /\ UNCHANGED <<lockVars, heVars, obsVars, mapVars, hookVars, selVars, frVars>>

\* The lock's callers when dispose() is never called.
NextLockLive ==
    \/ LockAcquire /\ UNCHANGED <<worldVars, heVars, obsVars, mapVars, hookVars, selVars, frVars>>
    \/ (\E i \in ItemIds : LockRelease(i)) /\ UNCHANGED <<worldVars, heVars, obsVars, mapVars, hookVars, selVars, frVars>>

\* The holder of the lock calls release() on its token.
HolderRelease ==
    (\E i \in Holders : LockRelease(i)) /\ UNCHANGED <<worldVars, heVars, obsVars, mapVars, hookVars, selVars, frVars>>

NextChain ==
    \/ (\E r \in CallerReasons : CallerAbort(r)) /\ UNCHANGED <<lockVars, obsVars, mapVars, hookVars, selVars, frVars>>
    \/ (\E p \in SignalIds \cup {NoSignal} : CreateScope(p))
          /\ UNCHANGED <<lockVars, heVars, obsVars, mapVars, hookVars, selVars, frVars>>
    \/ (\E k \in ScopeIds : DisposeScope(k)) /\ UNCHANGED <<lockVars, heVars, obsVars, mapVars, hookVars, selVars, frVars>>
    \/ (\E k \in ScopeIds : AbortScope(k)) /\ UNCHANGED <<lockVars, heVars, obsVars, mapVars, hookVars, selVars, frVars>>
    \/ (\E k \in ScopeIds : CallDelay(ScopeSignal(k)))
          /\ UNCHANGED <<lockVars, heVars, obsVars, mapVars, hookVars, selVars, frVars>>

NextHappy ==
    \/ (\E r \in CallerReasons : CallerAbort(r)) /\ UNCHANGED <<lockVars, obsVars, mapVars, hookVars, selVars, frVars>>
    \/ (\E d \in DelayIds : TimerFire(d)) /\ UNCHANGED <<lockVars, obsVars, mapVars, hookVars, selVars, frVars>>
    \/ (\E n \in 0..MaxVariants, p \in {NoSignal, CallerSignal},
           o \in MakeAttemptOutcomes : HeCall(n, p, o)) /\ UNCHANGED <<lockVars, obsVars, mapVars, hookVars, selVars, frVars>>
    \/ (\E v \in VariantIds : AttemptResolve(v)) /\ UNCHANGED <<lockVars, obsVars, mapVars, hookVars, selVars, frVars>>
    \/ (\E v \in VariantIds : AttemptReject(v)) /\ UNCHANGED <<lockVars, obsVars, mapVars, hookVars, selVars, frVars>>
    \/ (\E o \in MakeAttemptOutcomes : HeWake(o)) /\ UNCHANGED <<lockVars, obsVars, mapVars, hookVars, selVars, frVars>>

\* A stagger timer of the call expires.
TimerStep ==
    (\E d \in DelayIds : TimerFire(d)) /\ UNCHANGED <<lockVars, obsVars, mapVars, hookVars, selVars, frVars>>

\* The promise of a started attempt settles.
AttemptSettle ==
    (\E v \in VariantIds : AttemptResolve(v) \/ AttemptReject(v))
        /\ UNCHANGED <<lockVars, obsVars, mapVars, hookVars, selVars, frVars>>

\* The continuation of the settled race runs.
WakeStep ==
    (\E o \in MakeAttemptOutcomes : HeWake(o)) /\ UNCHANGED <<lockVars, obsVars, mapVars, hookVars, selVars, frVars>>

NextRace ==
    \/ (\E r \in CallerReasons : CallerAbort(r)) /\ UNCHANGED <<lockVars, obsVars, mapVars, hookVars, selVars, frVars>>
    \/ (\E s \in {NoSignal, CallerSignal} : CallRace(s))
          /\ UNCHANGED <<lockVars, heVars, obsVars, mapVars, hookVars, selVars, frVars>>
    \/ (\E r \in RaceIds : InputFulfil(r)) /\ UNCHANGED <<lockVars, heVars, obsVars, mapVars, hookVars, selVars, frVars>>
    \/ (\E r \in RaceIds : InputReject(r)) /\ UNCHANGED <<lockVars, heVars, obsVars, mapVars, hookVars, selVars, frVars>>
    \/ (\E r \in RaceIds : RaceThen(r)) /\ UNCHANGED <<lockVars, heVars, obsVars, mapVars, hookVars, selVars, frVars>>

\* AsyncLock under any interleaving of acquire, release and dispose
SpecLock == Init /\ [][NextLock]_vars
\* AsyncLock without dispose(), every holder eventually releasing
SpecLockLive == Init /\ [][NextLockLive]_vars /\ WF_vars(HolderRelease)
\* AsyncLock with dispose(), every holder eventually releasing
SpecLockFair == Init /\ [][NextLock]_vars /\ WF_vars(HolderRelease)
\* AbortScope and delay under any interleaving of the caller's calls and timers
SpecScope == Init /\ [][NextScope]_vars
\* Chains of AbortScopes, each derived from the caller's signal or from another
\* scope's signal, with delays on the scopes' signals
SpecChain == Init /\ [][NextChain]_vars
\* One raceHappyEyes call with its attempts, timers and the caller's signal
SpecHappy == Init /\ [][NextHappy]_vars
\* The same, every timer eventually firing, every attempt eventually settling
\* and every continuation eventually running
SpecHappyFair ==
    /\ Init /\ [][NextHappy]_vars
    /\ WF_vars(TimerStep) /\ WF_vars(AttemptSettle) /\ WF_vars(WakeStep)
\* KeyedObserver with a subscribe that may throw
SpecObserverThrow == Init /\ [][NextObserverThrow]_vars
\* A component using useObservedElement: mount, data changes, unmount
SpecHook == Init /\ [][NextHook]_vars
\* ElementTypeSelector: search-string changes, lookups settling, unmount
SpecSelector == Init /\ [][NextSelector]_vars
\* One subscription to a frame-debounced store: notifications, frames, dispose
SpecFrame == Init /\ [][NextFrame]_vars
\* raceAbortSignal calls on the caller's signal, with their promises settling
SpecRace == Init /\ [][NextRace]_vars
\* One KeyedObserver under any sequence of observe and stopListening calls
SpecObserver == Init /\ [][NextObserver]_vars
\* mapAbortedToNull calls on the caller's signal, with their promises settling
SpecMap == Init /\ [][NextMap]_vars


\* =================================================================== claims

\* C1: AsyncLock grants are strictly FIFO. Requests are numbered in the order
\* of their acquire() calls, so as long as dispose() has rejected nothing the
\* k-th promise to fulfil is that of request k.
C1_GrantsInRequestOrder ==
    (\A i \in ItemIds : lockItems[i].state # "rejected")
        => \A k \in 1..Len(lockGrants) : lockGrants[k] = k

\* C2: mutual exclusion. In every reachable state at most one request is the
\* holder (granted, release() not yet called), the holder is the lock's
\* active item, and a request arriving while a holder is active is left
\* pending by the acquire() call.
C2_MutualExclusion ==
    /\ [](/\ Cardinality(Holders) <= 1
          /\ \A i \in Holders : lockActive = i)
    /\ [][\A i \in ItemIds :
            (lockItems[i].state = "none" /\ lockItems'[i].state # "none"
                /\ Holders # {})
                => (lockItems'[i].state = "pending" /\ Holders' = Holders)]_vars

\* C2 witness: after a release the second holder is active, and a later
\* request is queued behind it.
C2_Witness ==
    /\ lockReleased # {}
    /\ \E i \in Holders : i > 1 /\ \E j \in Queued : j > i

\* C3: dispose() rejects every request that is queued when it is called.
C3_DisposeRejectsEveryQueued ==
    [][LockDispose =>
        \A i \in ItemIds :
            lockItems[i].state = "pending" => lockItems'[i].state = "rejected"]_vars

\* C4: raceHappyEyes fails with 'No variants left to attempt' only when every
\* candidate has been started and every started attempt has failed.
C4_ExhaustedOnlyWhenAllFailed ==
    (hePc = "failed" /\ heError = "NoVariantsLeft")
        => \A v \in 1..heCount : attemptState[v] = "rejected"

C6_CurrentFailureStartsNext ==
    [][\A i \in VariantIds :
        (/\ hePc = "waiting" /\ raceWinner = i /\ i = heIndex /\ i < heCount
         /\ attemptState[i] = "rejected"
         /\ delays[i].timer = "pending"
         /\ ~sigAborted[ScopeSignal(HeScope)]
         /\ i \in heAttempts /\ i \notin heAttempts')
            => (heIndex' = i + 1 \/ heError' = "AttemptThrew")]_vars

\* C7: candidate i+1 is started only when candidate i's stagger timer has
\* fired, or candidate i has failed, or no earlier attempt is left in flight.
C7_NextStartNeedsTimeoutOrFailure ==
    [][\A i \in VariantIds :
        (heIndex = i /\ heIndex' = i + 1)
            => \/ delays[i].timer = "fired"
               \/ attemptState[i] = "rejected"
               \/ heAttempts' \ {i + 1} = {}]_vars

\* C8: a scope constructed from a parent signal that is already aborted has
\* an aborted signal when the constructor returns.
C8_AbortedParentAbortsNewScope ==
    [][\A k \in ScopeIds :
        (/\ ~scopes[k].made /\ scopes'[k].made
         /\ scopes'[k].arg # NoSignal
         /\ sigAborted[scopes'[k].arg])
            => sigAborted'[ScopeSignal(k)]]_vars

\* C9: when a scope derived from a parent signal is disposed (or aborted via
\* abort()), its listener is no longer registered on the parent.
C9_DisposeDetachesFromParent ==
    [][\A k \in ScopeIds :
        (DisposeScope(k) \/ AbortScope(k))
            => \A s \in SignalIds :
                   ScopeListener(k) \notin SeqRange(sigListeners'[s])]_vars

\* C10: delay called with an already aborted signal is rejected when the call
\* returns and has left no timer pending.
C10_AbortedDelaySchedulesNoTimer ==
    [][\A d \in DelayIds :
        (/\ delays[d].state = "none" /\ delays'[d].state # "none"
         /\ delays'[d].signal # NoSignal
         /\ sigAborted[delays'[d].signal])
            => (delays'[d].state = "rejected" /\ delays'[d].timer # "pending")]_vars


\* C11: once the promise raceAbortSignal returned has settled, whichever side
\* decided the race, the call has no abort listener left on its signal.
C11_RaceLeavesNoListener ==
    \A r \in RaceIds :
        (races[r].made /\ races[r].signal # NoSignal /\ races[r].result # "pending")
            => RaceListener(r) \notin SeqRange(sigListeners[races[r].signal])

\* Keys with a live subscription: a capability returned and not yet invoked.
LiveKeys == {k \in KeyIds : obsLive[k] > 0}

\* Duplicates removed, first occurrences kept in order.
RECURSIVE Dedup(_)
Dedup(q) ==
    IF q = <<>> THEN <<>>
    ELSE LET front == Dedup(SubSeq(q, 1, Len(q) - 1))
             last == q[Len(q)]
         IN  IF last \in SeqRange(front) THEN front ELSE Append(front, last)

\* C12: after every observe/stopListening call the keys with a live
\* subscription are exactly the keys of the latest request for which subscribe
\* returned a capability (in this call, or earlier and still stored); they are
\* the keys the Map tracks, each once, and no key has two live subscriptions.
C12_TrackedIsLatestRequest ==
    /\ \A k \in KeyIds : obsLive[k] <= 1
    /\ LiveKeys = {k \in SeqRange(obsRequest) : k \in SeqRange(obsPrev) \/ k \in obsOk}
    /\ SeqRange(obsKeys) = LiveKeys
    /\ Len(obsKeys) = Cardinality(LiveKeys)

\* C12 witness: a call that kept one key, dropped one and found nothing to
\* subscribe to for a third.
C12_Witness ==
    /\ Len(obsPrev) = 2
    /\ Len(obsRequest) = 2
    /\ Len(obsKeys) = 1
    /\ obsKeys[1] \in SeqRange(obsPrev)
    /\ obsSubCalls # <<>>
    /\ obsUnsubCalls # <<>>

\* C13: observe(keys) makes the subscribe and unsubscribe invocations, and
\* leaves the Map, that observe of the list without its duplicates does.
C13_DuplicatesAsSet ==
    LET run == ObserveRun(obsPrev, Dedup(obsRequest), obsOk)
    IN  /\ obsSubCalls = run.subs
        /\ obsUnsubCalls = run.unsubs
        /\ obsKeys = run.observed

\* C14: when the holder calls release(), the earliest request still queued
\* becomes the active item with its promise fulfilled; when nothing is queued
\* the lock is left free, with no active item.
C14_ReleaseGrantsEarliestQueued ==
    [][\A i \in Holders :
        LockRelease(i) =>
            IF Queued # {}
            THEN /\ lockActive' = SetMin(Queued)
                 /\ lockItems'[SetMin(Queued)].state = "fulfilled"
            ELSE lockActive' = NoItem]_vars

\* C15: release() through a token that is not the holder's (a request still
\* queued, or a former holder's token used again) leaves the lock as it is,
\* and the holder's own release() moves the lock on to the holder's successor.
C15_OnlyHolderReleaseAdvances ==
    /\ [](\A i \in ItemIds :
            ((lockItems[i].state = "pending"
                \/ (lockItems[i].state = "fulfilled" /\ i \in lockReleased))
                => ReleaseItem(LockNow, i) = LockNow))
    /\ [][\A i \in ItemIds :
            LockRelease(i) =>
                IF i \in Holders
                THEN lockActive' = lockItems[i].next /\ lockActive' # i
                ELSE UNCHANGED <<lockActive, lockItems, lockGrants>>]_vars

\* C15 witness: a former holder's token has been released a second time while
\* its successor holds the lock and another request is queued.
C15_Witness ==
    /\ lockAgain # {}
    /\ Holders # {}
    /\ Queued # {}

\* C16: dispose() leaves a granted request alone: the holder's promise stays
\* fulfilled and the holder stays the lock's active item.
C16_DisposeKeepsHolder ==
    [][LockDispose =>
        /\ Holders' = Holders
        /\ lockActive' = lockActive
        /\ \A i \in Holders : lockItems'[i].state = "fulfilled"]_vars

\* C16 witness: dispose() has rejected a queued request while the holder is
\* still granted and active.
C16_Witness ==
    /\ \E i \in ItemIds : lockItems[i].state = "rejected"
    /\ \E i \in Holders : lockActive = i

\* C17: attempts are started strictly in candidate order, one at a time and
\* each at most once: a step that starts an attempt starts exactly the
\* candidate after the one started last, which had not been started before,
\* and an attempt once started is never started again.
C17_StartsInCandidateOrder ==
    [][/\ heIndex' # heIndex =>
            /\ heIndex' = heIndex + 1
            /\ heIndex' <= heCount'
            /\ attemptState[heIndex'] = "notStarted"
            /\ attemptState'[heIndex'] = "pending"
       /\ \A v \in VariantIds :
            /\ (attemptState[v] = "notStarted" /\ attemptState'[v] # "notStarted")
                   => (v = heIndex' /\ heIndex' # heIndex)
            /\ (attemptState[v] # "notStarted" /\ attemptState'[v] # attemptState[v])
                   => (attemptState[v] = "pending" /\ heIndex' = heIndex
                       /\ attemptState'[v] \in {"resolved", "rejected"})
            /\ (v > heIndex => attemptState[v] = "notStarted")
            /\ (v <= heIndex => attemptState[v] # "notStarted")]_vars

\* C17 witness: all three candidates have been started, the second after the
\* first one's stagger timer fired and the third after the second failed.
C17_Witness ==
    /\ heCount = MaxVariants
    /\ heIndex = MaxVariants
    /\ attemptState[1] = "pending"
    /\ delays[1].timer = "fired"
    /\ attemptState[2] = "rejected"
    /\ attemptState[MaxVariants] = "pending"

\* C18: whenever raceHappyEyes has exited, by a return or by any failure, the
\* scope's signal, which every attempt was given, is aborted and no stagger
\* timer of the call is pending.
C18_ExitAbortsScope ==
    hePc \in {"returned", "failed"}
        => /\ sigAborted[ScopeSignal(HeScope)]
           /\ \A d \in DelayIds : delays[d].timer # "pending"

\* C18 witness: the call failed on an exception thrown while starting an
\* attempt; an earlier attempt is still in flight and its stagger timer,
\* pending until then, was cleared by the abort.
C18_Witness ==
    /\ hePc = "failed"
    /\ heError = "AttemptThrew"
    /\ \E v \in VariantIds :
           attemptState[v] = "pending" /\ delays[v].timer = "cleared"
    /\ sigAborted[ScopeSignal(HeScope)]

\* C19: once an attempt still in the race has succeeded (and the caller has
\* not cancelled), raceHappyEyes starts no further candidate, and the next
\* thing the call does is return the value of an attempt that succeeded.
C19_SuccessStopsStarting ==
    [][(/\ hePc = "waiting"
        /\ ~sigAborted[CallerSignal]
        /\ \E v \in heAttempts : attemptState[v] = "resolved")
           => /\ heIndex' = heIndex
              /\ hePc' # "waiting"
                    => (hePc' = "returned" /\ attemptState[heResult'] = "resolved")]_vars

\* C20: raceHappyEyes fails only with the exhaustion error or with the reason
\* of a cancellation, and the expiry of a stagger timer is never the event the
\* call fails on.
C20_OnlyExhaustionOrCancellation ==
    /\ [](hePc = "failed" => heError \in {"NoVariantsLeft"} \cup CallerReasons)
    /\ [][SettledByTimer => hePc' # "failed"]_vars

\* C21: cancellation goes downward only. When the parent signal of a scope
\* becomes aborted, the scope's own signal is aborted in the same step; an
\* abort() or dispose of the scope leaves its parent signal as it was.
C21_AbortPropagatesDownwardOnly ==
    [][\A k \in ScopeIds :
        (scopes[k].made /\ scopes[k].arg # NoSignal)
            => /\ (~sigAborted[scopes[k].arg] /\ sigAborted'[scopes[k].arg])
                      => sigAborted'[ScopeSignal(k)]
               /\ (DisposeScope(k) \/ AbortScope(k))
                      => sigAborted'[scopes[k].arg] = sigAborted[scopes[k].arg]]_vars

\* C21 witness: a chain caller's signal -> scope 1 -> scope 2, all aborted
\* after the caller aborted with its own reason, and a delay on scope 1's
\* signal rejected by it.
C21_Witness ==
    /\ scopes[1].made /\ scopes[1].arg = CallerSignal
    /\ scopes[2].made /\ scopes[2].arg = ScopeSignal(1)
    /\ sigAborted[CallerSignal] /\ sigReason[CallerSignal] = "UserReason"
    /\ sigAborted[ScopeSignal(1)]
    /\ sigAborted[ScopeSignal(2)]
    /\ \E d \in DelayIds :
          /\ delays[d].signal = ScopeSignal(1)
          /\ delays[d].state = "rejected"

\* C22: cancellation of a scope is permanent and idempotent. Once aborted the
\* scope's signal stays aborted with the same reason whatever is called next,
\* an abort() or dispose of the scope leaves its signal aborted, and the
\* signal's 'abort' event calls each listener at most once.
C22_ScopeAbortPermanent ==
    /\ [](\A k \in ScopeIds :
            Len(sigNotified[ScopeSignal(k)])
                = Cardinality(SeqRange(sigNotified[ScopeSignal(k)])))
    /\ [][\A k \in ScopeIds :
            /\ sigAborted[ScopeSignal(k)]
                  => /\ sigAborted'[ScopeSignal(k)]
                     /\ sigReason'[ScopeSignal(k)] = sigReason[ScopeSignal(k)]
                     /\ sigNotified'[ScopeSignal(k)] = sigNotified[ScopeSignal(k)]
            /\ (DisposeScope(k) \/ AbortScope(k))
                  => sigAborted'[ScopeSignal(k)]]_vars

\* C22 witness: scope 1, derived from the caller's signal, was aborted and
\* called one delay's listener; a delay made on its signal afterwards still
\* has its listener registered and was not called, although the parent's
\* abort has run the scope's listener since.
C22_Witness ==
    /\ scopes[1].made /\ scopes[1].arg = CallerSignal
    /\ sigAborted[ScopeSignal(1)]
    /\ sigNotified[ScopeSignal(1)] = <<DelayListener(1)>>
    /\ DelayListener(2) \in SeqRange(sigListeners[ScopeSignal(1)])
    /\ ScopeListener(1) \in SeqRange(sigNotified[CallerSignal])

\* C23: a delay settles once, with the first of the two events. While it is
\* pending neither has happened; it resolves in the step its timer expires,
\* the signal not aborted; it rejects with the signal's reason in a step that
\* finds or makes the signal aborted, the timer not yet expired; and once
\* settled neither its state nor its error changes.
C23_DelaySettlesWithFirstEvent ==
    /\ [](\A d \in DelayIds :
            delays[d].state = "pending"
                => /\ delays[d].timer = "pending"
                   /\ (delays[d].signal # NoSignal => ~sigAborted[delays[d].signal]))
    /\ [][\A d \in DelayIds :
            /\ delays[d].state \in {"resolved", "rejected"}
                  => /\ delays'[d].state = delays[d].state
                     /\ delays'[d].error = delays[d].error
            /\ (delays[d].state = "pending" /\ delays'[d].state = "resolved")
                  => /\ TimerFire(d)
                     /\ delays'[d].error = "none"
            /\ (delays[d].state = "pending" /\ TimerFire(d))
                  => delays'[d].state = "resolved"
            /\ (delays[d].state # "rejected" /\ delays'[d].state = "rejected")
                  => /\ delays'[d].signal # NoSignal
                     /\ sigAborted'[delays'[d].signal]
                     /\ delays'[d].error = sigReason'[delays'[d].signal]
                     /\ delays[d].timer # "fired"]_vars

\* C23 witness: one delay was rejected by an abort and its timer expired
\* afterwards; another resolved by its timer and its signal was aborted
\* afterwards. Both kept their result.
C23_Witness ==
    /\ \E d \in DelayIds :
          /\ delays[d].state = "rejected"
          /\ delays[d].timer = "fired"
    /\ \E d \in DelayIds :
          /\ delays[d].state = "resolved"
          /\ delays[d].signal # NoSignal
          /\ sigAborted[delays[d].signal]

\* C24: a settled delay leaves no residue. A delay resolved by its timer has
\* no abort listener left on its signal; a pending delay rejected by an abort
\* has its timer cleared in that step, and a delay whose timer was cleared
\* has no listener left either.
C24_SettledDelayLeavesNoResidue ==
    /\ [](\A d \in DelayIds :
            /\ (delays[d].state = "resolved" /\ delays[d].signal # NoSignal)
                  => DelayListener(d) \notin SeqRange(sigListeners[delays[d].signal])
            /\ delays[d].timer = "cleared"
                  => /\ delays[d].state = "rejected"
                     /\ DelayListener(d) \notin SeqRange(sigListeners[delays[d].signal]))
    /\ [][\A d \in DelayIds :
            (delays[d].state = "pending" /\ delays'[d].state = "rejected")
                => delays'[d].timer = "cleared"]_vars

\* C24 witness: two delays on the caller's signal; the timer of the first
\* expired, then the abort cancelled the second.
C24_Witness ==
    /\ delays[1].signal = CallerSignal
    /\ delays[1].state = "resolved"
    /\ delays[2].signal = CallerSignal
    /\ delays[2].state = "rejected"
    /\ delays[2].timer = "cleared"
    /\ sigNotified[CallerSignal] = <<DelayListener(2)>>

\* C25: raceAbortSignal with a signal settles with whichever comes first. The
\* promise fulfilling or rejecting while the race is undecided decides it with
\* that outcome; the signal becoming aborted while the promise is pending and
\* the race undecided rejects it with the signal's reason; a decided race and
\* a settled result never change.
C25_RaceSettlesWithFirst ==
    /\ [](\A r \in RaceIds :
            (races[r].made /\ races[r].signal # NoSignal)
                => /\ races[r].raced = "pending" => races[r].input = "pending"
                   /\ races[r].result = "fulfilled"
                         => (races[r].raced = "fulfilled" /\ races[r].input = "fulfilled")
                   /\ races[r].result = "rejected"
                         => \/ races[r].error = "InputError" /\ races[r].input = "rejected"
                            \/ /\ sigAborted[races[r].signal]
                               /\ races[r].error = sigReason[races[r].signal])
    /\ [][\A r \in RaceIds :
            (races[r].made /\ races[r].signal # NoSignal)
                => /\ races[r].raced # "pending" => races'[r].raced = races[r].raced
                   /\ races[r].result # "pending"
                         => /\ races'[r].result = races[r].result
                            /\ races'[r].error = races[r].error
                   /\ (races[r].raced = "pending" /\ InputFulfil(r))
                         => races'[r].raced = "fulfilled"
                   /\ (races[r].raced = "pending" /\ InputReject(r))
                         => /\ races'[r].result = "rejected"
                            /\ races'[r].error = "InputError"
                   /\ (/\ races[r].raced = "pending"
                       /\ ~sigAborted[races[r].signal]
                       /\ sigAborted'[races[r].signal])
                         => /\ races'[r].result = "rejected"
                            /\ races'[r].error = sigReason'[races[r].signal]
                   /\ (races[r].raced = "fulfilled" /\ RaceThen(r))
                         => races'[r].result = "fulfilled"]_vars

\* C25 witness: race 1 was decided by its promise fulfilling and the abort
\* came before its then-callback ran; race 2 was decided by that abort and its
\* promise fulfilled afterwards. Each kept the first outcome.
C25_Witness ==
    /\ races[1].signal = CallerSignal /\ races[2].signal = CallerSignal
    /\ races[1].result = "fulfilled"
    /\ RaceListener(1) \in SeqRange(sigNotified[CallerSignal])
    /\ races[2].result = "rejected"
    /\ races[2].error = "UserReason"
    /\ races[2].input = "fulfilled"

\* C26 as stated: the result is null when the signal was aborted at the time
\* the input promise settled, and the input's own outcome when there is no
\* signal or it was not aborted at that time.
C26_NullIffAbortedAtSettle ==
    \A m \in MapIds :
        maps[m].result.state # "pending"
            => IF maps[m].abortedAtSettle
               THEN maps[m].result = [state |-> "fulfilled", value |-> "null"]
               ELSE maps[m].result = maps[m].input

\* C26 amended: the signal is read when the reaction runs. The result is null
\* when the signal is aborted then (so also when it was aborted at the time
\* the promise settled), the input's own outcome when there is no signal or
\* it is not aborted then; and the result never changes.
C26_NullIffAbortedAtReaction ==
    /\ [](\A m \in MapIds :
            maps[m].result.state # "pending"
                => /\ maps[m].abortedAtSettle
                         => maps[m].result = [state |-> "fulfilled", value |-> "null"]
                   /\ maps[m].signal = NoSignal => maps[m].result = maps[m].input
                   /\ maps[m].result.value = "null" => MapSignalAborted(m))
    /\ [][\A m \in MapIds :
            /\ MapThen(m)
                  => IF maps[m].signal # NoSignal /\ sigAborted[maps[m].signal]
                     THEN maps'[m].result = [state |-> "fulfilled", value |-> "null"]
                     ELSE maps'[m].result = maps[m].input
            /\ maps[m].result.state # "pending"
                  => maps'[m].result = maps[m].result]_vars

\* C26 witness: a rejection mapped to null under an aborted signal, next to a
\* call without signal that passed its value through.
C26_Witness ==
    /\ maps[1].signal = CallerSignal
    /\ maps[1].input.state = "rejected"
    /\ maps[1].abortedAtSettle
    /\ maps[1].result = [state |-> "fulfilled", value |-> "null"]
    /\ maps[2].signal = NoSignal
    /\ maps[2].result = [state |-> "fulfilled", value |-> "b"]
    /\ sigAborted[CallerSignal]

\* C27: after an observe(next) with a duplicate-free list, the call has
\* invoked the stored unsubscribe once for each key tracked before and not in
\* next, subscribe once for each key of next not tracked before, and neither
\* for any other key.
C27_DiffOfTrackedAndNext ==
    Len(obsRequest) = Cardinality(SeqRange(obsRequest))
        => \A k \in KeyIds :
              /\ Count(obsUnsubCalls, k) =
                     IF k \in SeqRange(obsPrev) /\ k \notin SeqRange(obsRequest)
                     THEN 1 ELSE 0
              /\ Count(obsSubCalls, k) =
                     IF k \in SeqRange(obsRequest) /\ k \notin SeqRange(obsPrev)
                     THEN 1 ELSE 0

\* C27 witness: observe([1, 2]) then observe([2, 3]): one unsubscribe for 1,
\* nothing for 2, one subscribe for 3.
C27_Witness ==
    /\ obsPrev = <<1, 2>>
    /\ obsRequest = <<2, 3>>
    /\ obsUnsubCalls = <<1>>
    /\ obsSubCalls = <<3>>
    /\ obsKeys = <<2, 3>>

\* C28: observe([]) on a tracker that tracks no key makes no subscribe and no
\* unsubscribe call and leaves the tracker as it was.
C28_EmptyOnEmptyIsNoOp ==
    [][(obsKeys = <<>> /\ ObsObserve(<<>>, {}))
          => /\ obsSubCalls' = <<>>
             /\ obsUnsubCalls' = <<>>
             /\ obsKeys' = obsKeys
             /\ obsLive' = obsLive
             /\ obsUsed' = obsUsed]_vars

\* C28 witness: the latest call was observe([]) with nothing tracked, on a
\* tracker that had subscriptions earlier.
C28_Witness ==
    /\ obsUsed
    /\ obsPrev = <<>>
    /\ obsRequest = <<>>
    /\ obsKeys = <<>>
    /\ obsSubCalls = <<>> /\ obsUnsubCalls = <<>>

\* C29: stopListening() is observe([]): from every state it invokes the
\* stored unsubscribe of each tracked key once, subscribes to nothing and
\* leaves no key tracked and no subscription live.
C29_StopListeningReleasesAll ==
    [][ObsStopListening
          => /\ ObsObserve(<<>>, {})
             /\ \A k \in KeyIds :
                   Count(obsUnsubCalls', k) = IF k \in SeqRange(obsKeys) THEN 1 ELSE 0
             /\ obsSubCalls' = <<>>
             /\ obsKeys' = <<>>
             /\ \A k \in KeyIds : obsLive'[k] = 0]_vars

\* C29 witness: a call with no keys released the two subscriptions tracked.
C29_Witness ==
    /\ Len(obsPrev) = 2
    /\ obsRequest = <<>>
    /\ Len(obsUnsubCalls) = 2
    /\ obsKeys = <<>>
    /\ \A k \in KeyIds : obsLive[k] = 0

\* C30: with dispose() never called and every holder eventually releasing,
\* every request that is waiting is eventually granted.
C30_EveryRequestGranted ==
    \A i \in ItemIds :
        (lockItems[i].state = "pending") ~> (lockItems[i].state = "fulfilled")

\* C31: a request that dispose() rejected is never the lock's active item,
\* and a request made while the lock has no holder and nothing else waiting
\* is eventually granted.
C31_RejectedNeverActive ==
    /\ [](lockActive # NoItem => lockItems[lockActive].state # "rejected")
    /\ \A i \in ItemIds :
          (lockItems[i].state = "pending" /\ Holders = {} /\ Queued = {i})
              ~> (lockItems[i].state = "fulfilled")

\* C32: a raceHappyEyes call made for at least one candidate with a caller's
\* signal that is already aborted starts no attempt and fails with the
\* cancellation error.
C32_AbortedAtCallStartsNothing ==
    [][(/\ hePc = "idle" /\ hePc' # "idle"
        /\ heCount' >= 1
        /\ scopes'[HeScope].arg = CallerSignal
        /\ sigAborted[CallerSignal])
          => /\ hePc' = "failed"
             /\ heError' \in CallerReasons
             /\ heIndex' = 0
             /\ \A v \in VariantIds : attemptState'[v] = "notStarted"]_vars

C34_FailureCarriesParentReason ==
    [][/\ \A d \in DelayIds :
            (/\ ~sigAborted[CallerSignal] /\ sigAborted'[CallerSignal]
             /\ delays[d].state = "pending" /\ delays'[d].state = "rejected")
                => delays'[d].error = sigReason'[CallerSignal]
       /\ (/\ hePc = "waiting" /\ hePc' = "failed"
           /\ sigAborted[CallerSignal]
           /\ heError' \notin {"NoVariantsLeft", "AttemptThrew"})
             => heError' = sigReason[CallerSignal]]_vars

\* C35: a raceHappyEyes call that is waiting eventually returns or fails, and
\* it makes at most one stagger delay per candidate: delay d is made in the
\* step that starts candidate d and its timer is never set again.
C35_CallTerminates ==
    /\ (hePc = "waiting") ~> (hePc \in {"returned", "failed"})
    /\ [][\A d \in DelayIds :
            /\ (delays[d].state = "none" /\ delays'[d].state # "none")
                  => (heIndex = d - 1 /\ heIndex' = d)
            /\ delays[d].timer \in {"fired", "cleared"}
                  => delays'[d].timer = delays[d].timer]_vars

\* C35 witness: the call ended after three candidates, each stagger timer
\* having fired.
C35_Witness ==
    /\ hePc \in {"returned", "failed"}
    /\ heCount = MaxVariants /\ heIndex = MaxVariants
    /\ \A d \in 1..MaxVariants : delays[d].timer = "fired"

\* C36: raceAbortSignal called with a pending promise and an already aborted
\* signal has failed with the signal's reason when the call returns.
C36_AbortedRaceFailsAtOnce ==
    [][\A r \in RaceIds :
        (/\ ~races[r].made /\ races'[r].made
         /\ races'[r].signal # NoSignal
         /\ sigAborted[races'[r].signal])
            => /\ races'[r].raced = "rejected"
               /\ races'[r].error = sigReason[races'[r].signal]]_vars

\* C37: when subscribe throws during observe(keys), every capability that
\* subscribe returned earlier in that call belongs to a key the observer
\* tracks afterwards (or has been invoked, so that it is live no more).
C37_ThrowingSubscribeLeaksNothing ==
    [][ObsThrowStep =>
          \A k \in KeyIds :
              obsLive'[k] > obsLive[k] => k \in SeqRange(obsKeys')]_vars

\* C38: a mounted component has created at most one pair of observers, and
\* after the component has unmounted no observer of it tracks a key (no
\* listener of it is left on the model).
C38_OnePairNoListenerLeft ==
    /\ Len(hookPairs) <= 1
    /\ hookPc = "unmounted" =>
          \A n \in 1..Len(hookPairs) :
              hookPairs[n].types = <<>> /\ hookPairs[n].props = <<>>

\* C39: a lookup that settles writes existingElements or isLoading only if
\* the component is mounted and the lookup was issued for the search string
\* the component holds now.
C39_StaleLookupWritesNothing ==
    [][\A k \in LookupIds :
        (/\ selLookups[k].state = "pending" /\ selLookups'[k].state # "pending"
         /\ (selExisting' # selExisting \/ selLoading' # selLoading))
            => (selPc = "mounted" /\ selLookups[k].text = selSearch)]_vars

\* C40: each subscription to the debounced store has at most one
\* animation-frame request pending, no step (a frame included) invokes its
\* onChange more than once, and its onChange is not invoked once the dispose
\* function it got back has been called.
C40_OneFrameOneChange ==
    /\ [](\A i \in SubIds : Cardinality({p \in frPending : p[1] = i}) <= 1)
    /\ [][\A i \in SubIds :
            /\ frCalls'[i] <= frCalls[i] + 1
            /\ frPc[i] = "disposed" => frCalls'[i] = frCalls[i]]_vars

\* C40 witness: a subscription disposed with the frame of several
\* notifications cancelled, its onChange having been invoked for an earlier
\* frame.
C40_Witness ==
    \E i \in SubIds :
        /\ frPc[i] = "disposed"
        /\ frScheduled[i] # NoFrame
        /\ \A p \in frPending : p[1] # i
        /\ frNotes[i] >= 2
        /\ frCalls[i] >= 1

====
